---- MODULE Spec2Model ----
(***************************************************************************)
(* A model of pymagnet's download lifecycle.                               *)
(*                                                                         *)
(* Three programs drive one transfer engine (libtorrent):                  *)
(*   prog = "cli"    cli_downloader.py: main() -> download_torrent()        *)
(*   prog = "lib"    downloader.py run as a script (its __main__ block)     *)
(*   prog = "client" a caller that uses one TorrentDownloader object and    *)
(*                   calls download(), get_info() and shutdown() on it      *)
(*                                                                         *)
(* pc is the position in the running code; each action is one statement    *)
(* group of the source between two points at which the engine can change   *)
(* or the user interrupt (KeyboardInterrupt) can arrive.  The engine is an *)
(* external collaborator: its status changes by EngineStep, and each query *)
(* of it may raise an engine error.                                        *)
(***************************************************************************)
EXTENDS Integers, Sequences, FiniteSets, TLC

VARIABLES
    prog, pc, magnet,               \* the program, its position, its magnet argument
    sessionUp, sessionPaused,       \* lt.session(): created and started; paused
    torrents, pausedT, handle,      \* handles in the session; the paused ones; the current one
    hasMeta, isSeed,                \* the engine's status of the current handle
    elapsed,                        \* time.time() - start_time, in seconds, while a wait loop runs
    last_peer_count, last_progress, pbar,   \* cli_downloader.py locals (pbar = pbar.n, -1: no bar)
    onProgress, onMetadata, ret,    \* download()'s callbacks; where the running method returns to
    interrupted, intAt, pending,    \* the user interrupt: arrived, where; the exception in flight
    reported, exitCode,             \* the outcomes printed so far; the process exit code (-1: running)
    sawMeta, metaDelivered,         \* has_metadata was observed true; the metadata was delivered
    progressCalls, snap,            \* progress deliveries of this download; the last value delivered
    queried, added,                 \* the running method has queried a status; has added a torrent
    timedOut, parseFailed,          \* the running method's wait has timed out; its magnet did not parse
    calls, lastOp, prevOp, prevOk,  \* the client: calls made; this call, the one before, how it ended
    terminal, shutdownBegun,        \* the client: the outcome a download() reached; shutdown() was called
    cycles, tfiles, result,         \* download(): loop cycles begun; the torrent's files; the value returned
    late,                           \* what a download loop has done since the engine became a seed
    intComplete,                    \* the interrupt arrived in a cycle whose status showed 100%
    cyclePeers, peerEvent,          \* a wait loop: the peer count of its latest cycle; a peer line was printed in it
    maxSeen,                        \* the CLI: the largest progress percentage a status query has shown
    fmtIn, fmtOut                   \* format_time: its argument; what it returned

engineVars == <<sessionUp, sessionPaused, torrents, pausedT, handle, hasMeta, isSeed>>
localVars  == <<last_peer_count, last_progress, pbar, onProgress, onMetadata, ret>>
ctlVars    == <<pc, reported, exitCode, pending>>
intVars    == <<interrupted, intAt>>
failVars   == <<timedOut, parseFailed>>
obsVars    == <<sawMeta, metaDelivered, progressCalls, snap, queried, added, failVars>>
clientVars == <<calls, lastOp, prevOp, prevOk, terminal, shutdownBegun>>
resVars    == <<cycles, tfiles, result>>
peerVars   == <<cyclePeers, peerEvent>>
fmtVars    == <<fmtIn, fmtOut>>
auxVars    == <<resVars, late, intComplete, peerVars, maxSeen, fmtVars>>
vars == <<prog, magnet, engineVars, elapsed, localVars, ctlVars, intVars, obsVars, clientVars,
          auxVars>>

(* ---------------------------------------------------------------- bounds *)
\* The engine reports progress in steps of 1/ProgSteps.
ProgSteps == 4
\* The largest peer count the engine reports.
MaxPeers == 2
\* The most cycles of one download loop that are explored, and the cycles of a metadata
\* wait in which the engine's peer counts are explored.
MaxCycles == 3
\* The most calls the client makes on its TorrentDownloader.
MaxCalls == 3
\* The most files a torrent has.
MaxFiles == 2
\* The largest size of a file of a torrent.
MaxSize == 2
\* The longest duration, in seconds, that format_time is given.
MaxSeconds == 7325

(* ------------------------------------------------------ program constants *)
\* timeout = 60  # 60 second timeout
Timeout == 60
\* time.sleep(1)
PollInterval == 1

(* ------------------------------------------------------------ positions *)
\* cli_downloader.py: the statements of download_torrent inside its try block.
CliTry == {"c_dl_cond", "c_dl_status", "c_dl_sleep", "c_dl_done", "c_dl_files"}
\* cli_downloader.py: the bodies of the two except clauses of that try.
CliExcept == {"c_kbd_report", "c_kbd_pause_t", "c_kbd_pause_s", "c_exc"}
\* cli_downloader.py: the metadata wait loop of download_torrent.
CliWait == {"c_wait_cond", "c_wait_timeout", "c_wait_status", "c_wait_sleep"}
\* downloader.py: the metadata wait loop of download().
DlWait == {"d_wait_cond", "d_wait_timeout", "d_wait_status", "d_wait_sleep"}
\* downloader.py: the download loop of download().
DlLoop == {"d_dl_cond", "d_dl_status", "d_dl_sleep"}
\* downloader.py: the statements of download().
DlBody == {"d_parse", "d_wait_init", "d_info", "d_result"} \cup DlWait \cup DlLoop
\* downloader.py: the statements of get_info().
GiBody == {"g_parse", "g_wait_init", "g_wait_cond", "g_wait_timeout", "g_wait_sleep",
           "g_info", "g_remove"}
\* downloader.py: the statements of shutdown().
SdBody == {"s_pause_torrents", "s_pause_session", "s_sleep"}
\* downloader.py: the statements of the script's try block (download() runs inside it).
LibTry == {"l_call", "l_report", "l_files"} \cup DlBody

(* ------------------------------------------------- control and exceptions *)
Ctl(p, rep, code, pend) ==
    /\ pc' = p
    /\ reported' = rep
    /\ exitCode' = code
    /\ pending' = pend

\* Control moves on to position p.
Goto(p) == Ctl(p, reported, exitCode, pending)

\* A terminal outcome ("complete", "cancelled", "error") is printed; control moves to p.
Say(what, p) == Ctl(p, Append(reported, what), exitCode, pending)

\* The process ends with the exit code.
Exit(code) == Ctl("exited", reported, code, "none")

\* An exception no handler catches ends the process: the interpreter prints the
\* traceback; an Exception exits 1, a KeyboardInterrupt ends the process by SIGINT
\* (status 130).
Uncaught(kind) ==
    Ctl("exited", Append(reported, "traceback"), IF kind = "kbd" THEN 130 ELSE 1, "none")


\* CliHandler with `except Exception` widened to catch the KeyboardInterrupt too.
CliHandlerCatchAll(p, kind) ==
    IF p = "c_parse" /\ kind = "exc" THEN "c_parse_err"
    ELSE IF p \in CliTry THEN "c_exc"
    ELSE IF p \in CliExcept THEN "c_finally"
    ELSE "uncaught"

\* cli_downloader.py: where an exception raised at position p is handled.
\* KeyboardInterrupt is not an Exception: `except Exception` does not catch it.
CliHandler(p, kind) ==
    IF p = "c_parse" /\ kind = "exc" THEN "c_parse_err"
    ELSE IF p \in CliTry THEN (IF kind = "kbd" THEN "c_kbd_report" ELSE "c_exc")
    ELSE IF p \in CliExcept THEN "c_finally"
    ELSE "uncaught"

\* downloader.py as a script: where an exception raised at position p is handled.
LibHandler(p, kind) ==
    IF p \in LibTry THEN (IF kind = "kbd" THEN "l_kbd" ELSE "l_exc")
    ELSE "uncaught"

\* The client catches whatever a method of its TorrentDownloader raises.
ClientHandler(p, kind) ==
    IF p \in DlBody \cup GiBody \cup SdBody THEN "k_back" ELSE "uncaught"

Handler(p, kind) ==
    IF prog = "cli" THEN CliHandler(p, kind)
    ELSE IF prog = "lib" THEN LibHandler(p, kind)
    ELSE ClientHandler(p, kind)

\* The exception is raised at the current position.  An exception raised inside an
\* except clause runs the finally clause and then propagates (pending).
Raise(kind) ==
    LET h == Handler(pc, kind) IN
    IF h = "uncaught" THEN Uncaught(kind)
    ELSE IF h \in {"c_finally", "k_back"} THEN Ctl(h, reported, exitCode, kind)
    ELSE Ctl(h, reported, exitCode, "none")

(* ----------------------------------------------------------------- Init *)
\* Nothing has been done since the engine became a seed.
NoLate == [queries |-> 0, callbacks |-> 0, sleeps |-> 0]

\* No value has been returned.
NoResult == [name |-> "none", files |-> <<>>, download_path |-> <<>>]

\* What is recorded about a run before anything has happened.
AuxInit ==
    /\ cycles = 0 /\ tfiles = <<>> /\ result = NoResult
    /\ late = NoLate
    /\ intComplete = FALSE
    /\ cyclePeers = 0 /\ peerEvent = FALSE
    /\ maxSeen = 0
    /\ fmtIn = 0 /\ fmtOut = <<>>

Init ==
    /\ prog \in {"cli", "lib", "client"}
    /\ magnet \in {"none", "bad", "ok"}
    /\ prog = "client" => magnet = "none"
    /\ pc = "main"
    /\ sessionUp = FALSE /\ sessionPaused = FALSE
    /\ torrents = {} /\ pausedT = {} /\ handle = 0
    /\ hasMeta = FALSE /\ isSeed = FALSE
    /\ elapsed = 0
    /\ last_peer_count = 0 /\ last_progress = 0 /\ pbar = -1
    /\ onProgress = FALSE /\ onMetadata = FALSE /\ ret = "none"
    /\ interrupted = FALSE /\ intAt = "none" /\ pending = "none"
    /\ reported = <<>> /\ exitCode = -1
    /\ sawMeta = FALSE /\ metaDelivered = FALSE
    /\ progressCalls = 0 /\ snap = -1
    /\ queried = FALSE /\ added = FALSE
    /\ timedOut = FALSE /\ parseFailed = FALSE
    /\ calls = 0 /\ lastOp = "none" /\ prevOp = "none" /\ prevOk = FALSE
    /\ terminal = "none" /\ shutdownBegun = FALSE
    /\ AuxInit

(* --------------------------------------------------------------- engine *)
\* status.progress * 100
Percent(p) == (p * 100) \div ProgSteps

\* The positions at which the program is between two queries of a polling loop.
Polling == CliWait \cup CliTry \cup DlWait \cup DlLoop \cup
           {"g_wait_cond", "g_wait_timeout", "g_wait_sleep"}

\* The engine runs on its own: the metadata arrives (once); the torrent becomes a seed
\* (all of it is there) and stays one.  A paused session or torrent transfers nothing.
EngineStep ==
    /\ pc \in Polling
    /\ handle # 0
    /\ ~sessionPaused /\ handle \notin pausedT
    /\ \/ ~hasMeta /\ hasMeta' = TRUE /\ UNCHANGED isSeed
       \/ hasMeta /\ ~isSeed /\ isSeed' = TRUE /\ UNCHANGED hasMeta
    /\ UNCHANGED <<prog, magnet, sessionUp, sessionPaused, torrents, pausedT, handle,
                   elapsed, localVars, ctlVars, intVars, obsVars, clientVars, auxVars>>

\* status.num_peers: whatever the engine reports at the query.  The counts are explored
\* in the first MaxCycles cycles of a wait; after them the engine reports no peers.
PeerCounts == IF elapsed < MaxCycles * PollInterval THEN 0..MaxPeers ELSE {0}

\* status.progress, in steps of 1/ProgSteps: whatever the engine reports at the query
\* (libtorrent's progress can drop, e.g. when a piece fails its hash check; it can be
\* 1.0 before the torrent is a seed); a seed has all of it.
Progresses == IF isSeed THEN {ProgSteps} ELSE 0..ProgSteps

\* session.add_torrent(params): a new handle, with nothing known about it yet.
NewHandle == IF prog = "client" THEN calls ELSE 1


\* The sizes of the files of a torrent, in the torrent's file order.
FileSizes == UNION {[1..n -> 1..MaxSize] : n \in 0..MaxFiles}

\* handle.get_torrent_info(): the files of the torrent, each with its path and its size
\* (file_at(i) is element i + 1).
TorrentInfos == {[i \in 1..Len(sz) |-> [path |-> i, size |-> sz[i]]] : sz \in FileSizes}

\* torrent_info.total_size(): the sizes of the torrent's files, added up.
RECURSIVE TotalSize(_)
TotalSize(info) ==
    IF info = <<>> THEN 0 ELSE info[1].size + TotalSize(Tail(info))

\* self.download_path, relative to the working directory.
DownloadPath == <<"downloads">>

\* os.path.abspath(path): a relative path is joined to the working directory.
AbsPath(path) ==
    IF path # <<>> /\ path[1] = "/" THEN path ELSE <<"/", "cwd">> \o path

AddTorrent ==
    /\ handle' = NewHandle
    /\ torrents' = torrents \cup {NewHandle}
    /\ hasMeta' = FALSE /\ isSeed' = FALSE
    /\ added' = TRUE
    /\ UNCHANGED <<sessionUp, sessionPaused, pausedT>>

(* ------------------------------------------------------- user interrupt *)
\* The lifecycle phase a position belongs to: the metadata wait loop
\* (ResolvingMetadata), the download loop (Downloading), or neither.
Phase(p) ==
    IF p \in CliWait \cup DlWait THEN "resolving"
    ELSE IF p \in {"c_dl_cond", "c_dl_status", "c_dl_sleep"} \cup DlLoop THEN "downloading"
    ELSE "other"

\* The user presses Ctrl-C once: KeyboardInterrupt is raised at the current position.
Interrupt ==
    /\ ~interrupted
    /\ pc \notin {"main", "exited", "k_idle", "k_back"}
    /\ interrupted' = TRUE
    /\ intAt' = Phase(pc)
    /\ intComplete' = (pc \in {"c_dl_sleep", "d_dl_sleep"} /\ snap = 100)
    /\ Raise("kbd")
    /\ UNCHANGED <<prog, magnet, engineVars, elapsed, localVars, obsVars, clientVars, resVars,
                   late, peerVars, maxSeen, fmtVars>>

(* ------------------------------------------ cli_downloader.py: the script *)
\* main(): a missing magnet argument prints the usage and exits 1.
CliMain ==
    /\ prog = "cli" /\ pc = "main"
    /\ IF magnet = "none" THEN Exit(1) ELSE Goto("c_session")
    /\ UNCHANGED <<prog, magnet, engineVars, elapsed, localVars, intVars, obsVars, clientVars, auxVars>>

\* download_torrent: the session is created, configured and its services started.
CliCreateSession ==
    /\ prog = "cli" /\ pc = "c_session"
    /\ sessionUp' = TRUE
    /\ Goto("c_parse")
    /\ UNCHANGED <<prog, magnet, sessionPaused, torrents, pausedT, handle, hasMeta, isSeed, elapsed, localVars, intVars, obsVars, clientVars, auxVars>>

\* CliParse with the parse error swallowed: the function goes on to the metadata wait.
CliParseSwallow ==
    /\ prog = "cli" /\ pc = "c_parse"
    /\ IF magnet = "bad"
       THEN /\ Goto("c_wait_init")
            /\ parseFailed' = TRUE
            /\ UNCHANGED <<engineVars, added>>
       ELSE /\ AddTorrent
            /\ UNCHANGED parseFailed
            /\ Goto("c_wait_init")
    /\ UNCHANGED <<prog, magnet, elapsed, localVars, intVars, sawMeta, metaDelivered,
                   progressCalls, snap, queried, timedOut, clientVars, auxVars>>

\* try: lt.parse_magnet_uri(magnet_link); session.add_torrent(params)
CliParse ==
    /\ prog = "cli" /\ pc = "c_parse"
    /\ IF magnet = "bad"
       THEN /\ Raise("exc")
            /\ parseFailed' = TRUE
            /\ UNCHANGED <<engineVars, added>>
       ELSE /\ AddTorrent
            /\ UNCHANGED parseFailed
            /\ Goto("c_wait_init")
    /\ UNCHANGED <<prog, magnet, elapsed, localVars, intVars, sawMeta, metaDelivered,
                   progressCalls, snap, queried, timedOut, clientVars, auxVars>>

\* except Exception: print the parse error; return (main returns, the script ends).
CliParseErr ==
    /\ prog = "cli" /\ pc = "c_parse_err"
    /\ Ctl("exited", Append(reported, "error"), 0, "none")
    /\ UNCHANGED <<prog, magnet, engineVars, elapsed, localVars, intVars, obsVars, clientVars, auxVars>>

\* timeout = 60; start_time = time.time(); last_peer_count = 0
CliWaitInit ==
    /\ prog = "cli" /\ pc = "c_wait_init"
    /\ elapsed' = 0
    /\ last_peer_count' = 0
    /\ Goto("c_wait_cond")
    /\ UNCHANGED <<prog, magnet, engineVars, last_progress, pbar, onProgress, onMetadata,
                   ret, intVars, obsVars, clientVars, auxVars>>

\* while not handle.status().has_metadata:
\* (the clock and the peer counts are this loop's alone: they are dropped when it is left)
CliWaitCond ==
    /\ prog = "cli" /\ pc = "c_wait_cond"
    /\ queried' = TRUE
    /\ \E err \in BOOLEAN :
        IF err THEN Raise("exc") /\ UNCHANGED <<sawMeta, elapsed, peerVars>>
        ELSE IF hasMeta
             THEN /\ Goto("c_info") /\ sawMeta' = TRUE /\ elapsed' = 0
                  /\ cyclePeers' = 0 /\ peerEvent' = FALSE
        ELSE Goto("c_wait_timeout") /\ UNCHANGED <<sawMeta, elapsed, peerVars>>
    /\ UNCHANGED <<prog, magnet, engineVars, localVars, intVars, metaDelivered,
                   progressCalls, snap, added, failVars, clientVars,
                   resVars, late, intComplete, maxSeen, fmtVars>>

\* if time.time() - start_time > timeout: print the timeout; return
CliWaitTimeout ==
    /\ prog = "cli" /\ pc = "c_wait_timeout"
    /\ IF elapsed > Timeout
       THEN Ctl("exited", Append(reported, "error"), 0, "none") /\ timedOut' = TRUE
       ELSE Goto("c_wait_status") /\ UNCHANGED timedOut
    /\ UNCHANGED <<prog, magnet, engineVars, elapsed, localVars, intVars, sawMeta,
                   metaDelivered, progressCalls, snap, queried, added, parseFailed, clientVars, auxVars>>

\* status = handle.status(); a changed, non-zero peer count is printed and remembered.
CliWaitStatus ==
    /\ prog = "cli" /\ pc = "c_wait_status"
    /\ queried' = TRUE
    /\ \E err \in BOOLEAN, num_peers \in PeerCounts :
        IF err THEN Raise("exc") /\ UNCHANGED <<last_peer_count, peerVars>>
        ELSE LET changed == num_peers # last_peer_count /\ num_peers > 0
             IN /\ Goto("c_wait_sleep")
                /\ peerEvent' = changed
                /\ last_peer_count' = IF changed THEN num_peers ELSE last_peer_count
                /\ cyclePeers' = num_peers
    /\ UNCHANGED <<prog, magnet, engineVars, elapsed, last_progress, pbar, onProgress,
                   onMetadata, ret, intVars, sawMeta, metaDelivered, progressCalls, snap,
                   added, failVars, clientVars,
                   resVars, late, intComplete, maxSeen, fmtVars>>

\* time.sleep(1)
CliWaitSleep ==
    /\ prog = "cli" /\ pc = "c_wait_sleep"
    /\ elapsed' = elapsed + PollInterval
    /\ Goto("c_wait_cond")
    /\ UNCHANGED <<prog, magnet, engineVars, localVars, intVars, obsVars, clientVars, auxVars>>

\* torrent_info = handle.get_torrent_info(); the torrent is printed; pbar = tqdm(total=100);
\* last_progress = 0
CliInfo ==
    /\ prog = "cli" /\ pc = "c_info"
    /\ \E err \in BOOLEAN :
        IF err THEN Raise("exc") /\ UNCHANGED <<metaDelivered, pbar, last_progress, maxSeen>>
        ELSE /\ Goto("c_dl_cond")
             /\ metaDelivered' = TRUE
             /\ pbar' = 0
             /\ last_progress' = 0
             /\ maxSeen' = 0
    /\ UNCHANGED <<prog, magnet, engineVars, elapsed, last_peer_count, onProgress, onMetadata,
                   ret, intVars, sawMeta, progressCalls, snap, queried, added, failVars, clientVars, resVars, late, intComplete, peerVars, fmtVars>>


\* What a download loop has done since the engine became a seed, after q more status
\* queries, c more progress deliveries and s more sleeps.
Late(q, c, s) ==
    IF isSeed
    THEN [queries |-> late.queries + q, callbacks |-> late.callbacks + c,
          sleeps |-> late.sleeps + s]
    ELSE late

\* while not handle.is_seed():
CliDlCond ==
    /\ prog = "cli" /\ pc = "c_dl_cond"
    /\ queried' = TRUE
    /\ \E err \in BOOLEAN :
        IF err THEN Raise("exc")
        ELSE IF isSeed THEN Goto("c_dl_done")
        ELSE Goto("c_dl_status")
    /\ UNCHANGED <<prog, magnet, engineVars, elapsed, localVars, intVars, sawMeta,
                   metaDelivered, progressCalls, snap, added, failVars, clientVars, auxVars>>

\* CliDlStatus without the test `current_progress > last_progress`: the bar follows every
\* reported value.
CliDlStatusAlways ==
    /\ prog = "cli" /\ pc = "c_dl_status"
    /\ progressCalls < MaxCycles
    /\ queried' = TRUE
    /\ \E err \in BOOLEAN, progress \in Progresses :
        IF err THEN /\ Raise("exc")
                    /\ late' = Late(1, 0, 0)
                    /\ UNCHANGED <<last_progress, pbar, progressCalls, snap, maxSeen>>
        ELSE LET current_progress == Percent(progress)
                 grown == TRUE
                 newLast == IF grown THEN current_progress ELSE last_progress
             IN /\ Goto("c_dl_sleep")
                /\ pbar' = IF grown THEN pbar + (current_progress - last_progress) ELSE pbar
                /\ last_progress' = newLast
                /\ progressCalls' = progressCalls + 1
                /\ snap' = newLast
                /\ maxSeen' = IF current_progress > maxSeen THEN current_progress ELSE maxSeen
                /\ late' = Late(1, 1, 0)
    /\ UNCHANGED <<prog, magnet, engineVars, elapsed, last_peer_count, onProgress, onMetadata,
                   ret, intVars, sawMeta, metaDelivered, added, failVars, clientVars, resVars,
                   intComplete, peerVars, fmtVars>>

\* status = handle.status(); the bar advances when the progress has grown.
CliDlStatus ==
    /\ prog = "cli" /\ pc = "c_dl_status"
    /\ progressCalls < MaxCycles
    /\ queried' = TRUE
    /\ \E err \in BOOLEAN, progress \in Progresses :
        IF err THEN /\ Raise("exc")
                    /\ late' = Late(1, 0, 0)
                    /\ UNCHANGED <<last_progress, pbar, progressCalls, snap, maxSeen>>
        ELSE LET current_progress == Percent(progress)
                 grown == current_progress > last_progress
                 newLast == IF grown THEN current_progress ELSE last_progress
             IN /\ Goto("c_dl_sleep")
                /\ pbar' = IF grown THEN pbar + (current_progress - last_progress) ELSE pbar
                /\ last_progress' = newLast
                /\ progressCalls' = progressCalls + 1
                /\ snap' = newLast
                /\ maxSeen' = IF current_progress > maxSeen THEN current_progress ELSE maxSeen
                /\ late' = Late(1, 1, 0)
    /\ UNCHANGED <<prog, magnet, engineVars, elapsed, last_peer_count, onProgress, onMetadata,
                   ret, intVars, sawMeta, metaDelivered, added, failVars, clientVars, resVars,
                   intComplete, peerVars, fmtVars>>

\* time.sleep(1)
CliDlSleep ==
    /\ prog = "cli" /\ pc = "c_dl_sleep"
    /\ Goto("c_dl_cond")
    /\ late' = Late(0, 0, 1)
    /\ UNCHANGED <<prog, magnet, engineVars, elapsed, localVars, intVars, obsVars, clientVars, resVars,
                   intComplete, peerVars, maxSeen, fmtVars>>

\* The loop has ended: the bar is filled to 100 and closed, "Download complete!" is printed.
CliDlDone ==
    /\ prog = "cli" /\ pc = "c_dl_done"
    /\ pbar' = IF pbar < 100 THEN pbar + (100 - pbar) ELSE pbar
    /\ Say("complete", "c_dl_files")
    /\ UNCHANGED <<prog, magnet, engineVars, elapsed, last_peer_count, last_progress,
                   onProgress, onMetadata, ret, intVars, obsVars, clientVars, auxVars>>

\* for i in range(torrent_info.num_files()): the files are printed (torrent_info.file_at).
CliDlFiles ==
    /\ prog = "cli" /\ pc = "c_dl_files"
    /\ \E err \in BOOLEAN : IF err THEN Raise("exc") ELSE Goto("c_finally")
    /\ UNCHANGED <<prog, magnet, engineVars, elapsed, localVars, intVars, obsVars, clientVars, auxVars>>


\* CliKbdReport in a handler without handle.pause(): the session is paused next.
CliKbdReportNoTorrentPause ==
    /\ prog = "cli" /\ pc = "c_kbd_report"
    /\ Say("cancelled", "c_kbd_pause_s")
    /\ UNCHANGED <<prog, magnet, engineVars, elapsed, localVars, intVars, obsVars, clientVars, auxVars>>

\* except KeyboardInterrupt: pbar.close(); "Download cancelled by user" is printed.
CliKbdReport ==
    /\ prog = "cli" /\ pc = "c_kbd_report"
    /\ Say("cancelled", "c_kbd_pause_t")
    /\ UNCHANGED <<prog, magnet, engineVars, elapsed, localVars, intVars, obsVars, clientVars, auxVars>>

\* handle.pause()
CliKbdPauseTorrent ==
    /\ prog = "cli" /\ pc = "c_kbd_pause_t"
    /\ pausedT' = pausedT \cup {handle}
    /\ Goto("c_kbd_pause_s")
    /\ UNCHANGED <<prog, magnet, sessionUp, sessionPaused, torrents, handle, hasMeta, isSeed, elapsed, localVars, intVars, obsVars, clientVars, auxVars>>

\* session.pause()
CliKbdPauseSession ==
    /\ prog = "cli" /\ pc = "c_kbd_pause_s"
    /\ sessionPaused' = TRUE
    /\ Goto("c_finally")
    /\ UNCHANGED <<prog, magnet, sessionUp, torrents, pausedT, handle, hasMeta, isSeed, elapsed, localVars, intVars, obsVars, clientVars, auxVars>>

\* except Exception as e: pbar.close(); the error is printed.
CliExc ==
    /\ prog = "cli" /\ pc = "c_exc"
    /\ Say("error", "c_finally")
    /\ UNCHANGED <<prog, magnet, engineVars, elapsed, localVars, intVars, obsVars, clientVars, auxVars>>

\* finally: session.pause(); then the function returns, or the exception in flight goes on.
CliFinally ==
    /\ prog = "cli" /\ pc = "c_finally"
    /\ sessionPaused' = TRUE
    /\ IF pending = "none" THEN Exit(0) ELSE Uncaught(pending)
    /\ UNCHANGED <<prog, magnet, sessionUp, torrents, pausedT, handle, hasMeta, isSeed, elapsed, localVars, intVars, obsVars, clientVars, auxVars>>

CliNext ==
    \/ CliMain \/ CliCreateSession \/ CliParse \/ CliParseErr
    \/ CliWaitInit \/ CliWaitCond \/ CliWaitTimeout \/ CliWaitStatus \/ CliWaitSleep
    \/ CliInfo \/ CliDlCond \/ CliDlStatus \/ CliDlSleep \/ CliDlDone \/ CliDlFiles
    \/ CliKbdReport \/ CliKbdPauseTorrent \/ CliKbdPauseSession \/ CliExc \/ CliFinally

(* ------------------------------------- downloader.py: TorrentDownloader *)
\* A method of TorrentDownloader returns to its caller: the script goes on after the
\* call, the client takes the result.
Return ==
    IF ret = "exit0" THEN Exit(0)
    ELSE IF ret = "exit1" THEN Exit(1)
    ELSE Goto(ret)

\* download(): params = lt.parse_magnet_uri(magnet_link); handle = self.session.add_torrent(params)
DlParse ==
    /\ pc = "d_parse"
    /\ IF magnet = "bad"
       THEN /\ Raise("exc")
            /\ parseFailed' = TRUE
            /\ UNCHANGED <<engineVars, added>>
       ELSE /\ AddTorrent
            /\ UNCHANGED parseFailed
            /\ Goto("d_wait_init")
    /\ UNCHANGED <<prog, magnet, elapsed, localVars, intVars, sawMeta, metaDelivered,
                   progressCalls, snap, queried, timedOut, clientVars, auxVars>>

\* timeout = 60; start_time = time.time()
DlWaitInit ==
    /\ pc = "d_wait_init"
    /\ elapsed' = 0
    /\ Goto("d_wait_cond")
    /\ UNCHANGED <<prog, magnet, engineVars, localVars, intVars, obsVars, clientVars, auxVars>>

\* DlWaitCond with the loop condition inverted: the loop is left while the engine has
\* no metadata.
DlWaitCondInverted ==
    /\ pc = "d_wait_cond"
    /\ queried' = TRUE
    /\ \E err \in BOOLEAN :
        IF err THEN Raise("exc") /\ UNCHANGED <<sawMeta, elapsed, peerVars>>
        ELSE IF ~hasMeta
             THEN /\ Goto("d_info") /\ UNCHANGED sawMeta /\ elapsed' = 0
                  /\ cyclePeers' = 0 /\ peerEvent' = FALSE
        ELSE Goto("d_wait_timeout") /\ sawMeta' = TRUE /\ UNCHANGED <<elapsed, peerVars>>
    /\ UNCHANGED <<prog, magnet, engineVars, localVars, intVars, metaDelivered,
                   progressCalls, snap, added, failVars, clientVars,
                   resVars, late, intComplete, maxSeen, fmtVars>>

\* while not handle.status().has_metadata:
\* (the clock and the peer counts are this loop's alone: they are dropped when it is left)
DlWaitCond ==
    /\ pc = "d_wait_cond"
    /\ queried' = TRUE
    /\ \E err \in BOOLEAN :
        IF err THEN Raise("exc") /\ UNCHANGED <<sawMeta, elapsed, peerVars>>
        ELSE IF hasMeta
             THEN /\ Goto("d_info") /\ sawMeta' = TRUE /\ elapsed' = 0
                  /\ cyclePeers' = 0 /\ peerEvent' = FALSE
        ELSE Goto("d_wait_timeout") /\ UNCHANGED <<sawMeta, elapsed, peerVars>>
    /\ UNCHANGED <<prog, magnet, engineVars, localVars, intVars, metaDelivered,
                   progressCalls, snap, added, failVars, clientVars,
                   resVars, late, intComplete, maxSeen, fmtVars>>

\* DlWaitTimeout with `break` in place of `raise`: after the timeout download() goes on.
DlWaitTimeoutBreak ==
    /\ pc = "d_wait_timeout"
    /\ IF elapsed > Timeout
       THEN Goto("d_info") /\ timedOut' = TRUE
       ELSE Goto("d_wait_status") /\ UNCHANGED timedOut
    /\ UNCHANGED <<prog, magnet, engineVars, elapsed, localVars, intVars, sawMeta,
                   metaDelivered, progressCalls, snap, queried, added, parseFailed, clientVars, auxVars>>


\* DlWaitTimeout with the limit one polling interval too far: the wait is left a cycle late.
DlWaitTimeoutLate ==
    /\ pc = "d_wait_timeout"
    /\ IF elapsed - PollInterval > Timeout
       THEN Raise("exc") /\ timedOut' = TRUE
       ELSE Goto("d_wait_status") /\ UNCHANGED timedOut
    /\ UNCHANGED <<prog, magnet, engineVars, elapsed, localVars, intVars, sawMeta,
                   metaDelivered, progressCalls, snap, queried, added, parseFailed, clientVars, auxVars>>

\* if time.time() - start_time > timeout: raise TimeoutError(...)
DlWaitTimeout ==
    /\ pc = "d_wait_timeout"
    /\ IF elapsed > Timeout
       THEN Raise("exc") /\ timedOut' = TRUE
       ELSE Goto("d_wait_status") /\ UNCHANGED timedOut
    /\ UNCHANGED <<prog, magnet, engineVars, elapsed, localVars, intVars, sawMeta,
                   metaDelivered, progressCalls, snap, queried, added, parseFailed, clientVars, auxVars>>

\* status = handle.status(); if status.num_peers > 0: the peer count is printed.
DlWaitStatus ==
    /\ pc = "d_wait_status"
    /\ queried' = TRUE
    /\ \E err \in BOOLEAN, num_peers \in PeerCounts :
        IF err THEN Raise("exc") /\ UNCHANGED peerVars
        ELSE /\ Goto("d_wait_sleep")
             /\ peerEvent' = (num_peers > 0)
             /\ cyclePeers' = num_peers
    /\ UNCHANGED <<prog, magnet, engineVars, elapsed, localVars, intVars, sawMeta,
                   metaDelivered, progressCalls, snap, added, failVars, clientVars,
                   resVars, late, intComplete, maxSeen, fmtVars>>

\* time.sleep(1)
DlWaitSleep ==
    /\ pc = "d_wait_sleep"
    /\ elapsed' = elapsed + PollInterval
    /\ Goto("d_wait_cond")
    /\ UNCHANGED <<prog, magnet, engineVars, localVars, intVars, obsVars, clientVars, auxVars>>

\* torrent_info = handle.get_torrent_info(); if on_metadata: on_metadata(metadata)
DlInfo ==
    /\ pc = "d_info"
    /\ \E err \in BOOLEAN :
        IF err THEN Raise("exc") /\ UNCHANGED metaDelivered
        ELSE /\ Goto("d_dl_cond")
             /\ metaDelivered' = (metaDelivered \/ onMetadata)
    /\ UNCHANGED <<prog, magnet, engineVars, elapsed, localVars, intVars, sawMeta,
                   progressCalls, snap, queried, added, failVars, clientVars, auxVars>>

\* while not handle.is_seed():
DlCond ==
    /\ pc = "d_dl_cond"
    /\ queried' = TRUE
    /\ \E err \in BOOLEAN :
        IF err THEN Raise("exc") /\ UNCHANGED cycles
        ELSE IF isSeed THEN Goto("d_result") /\ UNCHANGED cycles
        ELSE Goto("d_dl_status") /\ cycles' = cycles + 1
    /\ UNCHANGED <<prog, magnet, engineVars, elapsed, localVars, intVars, sawMeta,
                   metaDelivered, progressCalls, snap, added, failVars, clientVars,
                   tfiles, result, late, intComplete, peerVars, maxSeen, fmtVars>>

\* status = handle.status(); if on_progress: on_progress(progress_info)
DlStatus ==
    /\ pc = "d_dl_status"
    /\ cycles <= MaxCycles
    /\ queried' = TRUE
    /\ \E err \in BOOLEAN, progress \in Progresses :
        IF err THEN /\ Raise("exc")
                    /\ late' = Late(1, 0, 0)
                    /\ UNCHANGED <<progressCalls, snap>>
        ELSE /\ Goto("d_dl_sleep")
             /\ IF onProgress
                THEN /\ progressCalls' = progressCalls + 1
                     /\ snap' = Percent(progress)
                     /\ late' = Late(1, 1, 0)
                ELSE /\ late' = Late(1, 0, 0)
                     /\ UNCHANGED <<progressCalls, snap>>
    /\ UNCHANGED <<prog, magnet, engineVars, elapsed, localVars, intVars, sawMeta,
                   metaDelivered, added, failVars, clientVars, resVars,
                   intComplete, peerVars, maxSeen, fmtVars>>


\* DlSleep in a loop that does not test is_seed() again: the next cycle begins at once.
DlSleepNoRecheck ==
    /\ pc = "d_dl_sleep"
    /\ Goto("d_dl_status")
    /\ late' = Late(0, 0, 1)
    /\ UNCHANGED <<prog, magnet, engineVars, elapsed, localVars, intVars, obsVars, clientVars,
                   resVars, intComplete, peerVars, maxSeen, fmtVars>>

\* time.sleep(1)
DlSleep ==
    /\ pc = "d_dl_sleep"
    /\ Goto("d_dl_cond")
    /\ late' = Late(0, 0, 1)
    /\ UNCHANGED <<prog, magnet, engineVars, elapsed, localVars, intVars, obsVars, clientVars,
                   resVars, intComplete, peerVars, maxSeen, fmtVars>>


\* for i in range(from, torrent_info.num_files()): files.append({'name': file_at(i).path,
\* 'size': file_at(i).size})
RECURSIVE ListFiles(_, _)
ListFiles(info, i) ==
    IF i >= Len(info) THEN <<>>
    ELSE <<[name |-> info[i + 1].path, size |-> info[i + 1].size]>> \o ListFiles(info, i + 1)

\* Files with the listing begun at the second file.
FilesFromSecond(info) == ListFiles(info, 1)

\* files = []; for i in range(torrent_info.num_files()): ...
Files(info) == ListFiles(info, 0)

\* The files of torrent_info are listed (the torrent's metadata is fixed: what it holds
\* is drawn here, where it is first read); return result
DlResult ==
    /\ pc = "d_result"
    /\ \E err \in BOOLEAN, info \in TorrentInfos :
        IF err THEN Raise("exc") /\ UNCHANGED <<tfiles, result>>
        ELSE /\ tfiles' = info
             /\ result' = [name |-> "torrent", files |-> Files(info),
                           download_path |-> AbsPath(DownloadPath)]
             /\ Return
    /\ UNCHANGED <<prog, magnet, engineVars, elapsed, localVars, intVars, obsVars, clientVars,
                   cycles, late, intComplete, peerVars, maxSeen, fmtVars>>

\* get_info(): params = lt.parse_magnet_uri(magnet_link); handle = self.session.add_torrent(params)
GiParse ==
    /\ pc = "g_parse"
    /\ IF magnet = "bad"
       THEN /\ Raise("exc")
            /\ parseFailed' = TRUE
            /\ UNCHANGED <<engineVars, added>>
       ELSE /\ AddTorrent
            /\ UNCHANGED parseFailed
            /\ Goto("g_wait_init")
    /\ UNCHANGED <<prog, magnet, elapsed, localVars, intVars, sawMeta, metaDelivered,
                   progressCalls, snap, queried, timedOut, clientVars, auxVars>>

\* timeout = 60; start_time = time.time()
GiWaitInit ==
    /\ pc = "g_wait_init"
    /\ elapsed' = 0
    /\ Goto("g_wait_cond")
    /\ UNCHANGED <<prog, magnet, engineVars, localVars, intVars, obsVars, clientVars, auxVars>>

\* while not handle.status().has_metadata:
GiWaitCond ==
    /\ pc = "g_wait_cond"
    /\ queried' = TRUE
    /\ \E err \in BOOLEAN :
        IF err THEN Raise("exc") /\ UNCHANGED <<sawMeta, elapsed>>
        ELSE IF hasMeta THEN Goto("g_info") /\ sawMeta' = TRUE /\ elapsed' = 0
        ELSE Goto("g_wait_timeout") /\ UNCHANGED <<sawMeta, elapsed>>
    /\ UNCHANGED <<prog, magnet, engineVars, localVars, intVars, metaDelivered,
                   progressCalls, snap, added, failVars, clientVars, auxVars>>

\* if time.time() - start_time > timeout: raise TimeoutError(...)
GiWaitTimeout ==
    /\ pc = "g_wait_timeout"
    /\ IF elapsed > Timeout
       THEN Raise("exc") /\ timedOut' = TRUE
       ELSE Goto("g_wait_sleep") /\ UNCHANGED timedOut
    /\ UNCHANGED <<prog, magnet, engineVars, elapsed, localVars, intVars, sawMeta,
                   metaDelivered, progressCalls, snap, queried, added, parseFailed, clientVars, auxVars>>

\* time.sleep(1)
GiWaitSleep ==
    /\ pc = "g_wait_sleep"
    /\ elapsed' = elapsed + PollInterval
    /\ Goto("g_wait_cond")
    /\ UNCHANGED <<prog, magnet, engineVars, localVars, intVars, obsVars, clientVars, auxVars>>

\* torrent_info = handle.get_torrent_info(); the files and the info are collected.
GiInfo ==
    /\ pc = "g_info"
    /\ \E err \in BOOLEAN : IF err THEN Raise("exc") ELSE Goto("g_remove")
    /\ UNCHANGED <<prog, magnet, engineVars, elapsed, localVars, intVars, obsVars, clientVars, auxVars>>

\* self.session.remove_torrent(handle); return info
GiRemove ==
    /\ pc = "g_remove"
    /\ torrents' = torrents \ {handle}
    /\ pausedT' = pausedT \ {handle}
    /\ handle' = 0
    /\ Return
    /\ UNCHANGED <<prog, magnet, sessionUp, sessionPaused, hasMeta, isSeed,
                   elapsed, localVars, intVars, obsVars, clientVars, auxVars>>

\* shutdown(): for torrent in self.session.get_torrents(): torrent.pause()
SdPauseTorrents ==
    /\ pc = "s_pause_torrents"
    /\ pausedT' = pausedT \cup torrents
    /\ Goto("s_pause_session")
    /\ UNCHANGED <<prog, magnet, sessionUp, sessionPaused, torrents, handle, hasMeta, isSeed, elapsed, localVars, intVars, obsVars, clientVars, auxVars>>

\* SdPauseSession as a toggle: a paused session is resumed.
SdPauseSessionToggle ==
    /\ pc = "s_pause_session"
    /\ sessionPaused' = ~sessionPaused
    /\ Goto("s_sleep")
    /\ UNCHANGED <<prog, magnet, sessionUp, torrents, pausedT, handle, hasMeta, isSeed,
                   elapsed, localVars, intVars, obsVars, clientVars, auxVars>>

\* self.session.pause()
SdPauseSession ==
    /\ pc = "s_pause_session"
    /\ sessionPaused' = TRUE
    /\ Goto("s_sleep")
    /\ UNCHANGED <<prog, magnet, sessionUp, torrents, pausedT, handle, hasMeta, isSeed, elapsed, localVars, intVars, obsVars, clientVars, auxVars>>

\* time.sleep(1); the method returns.
SdSleep ==
    /\ pc = "s_sleep"
    /\ Return
    /\ UNCHANGED <<prog, magnet, engineVars, elapsed, localVars, intVars, obsVars, clientVars, auxVars>>

TdNext ==
    \/ DlParse \/ DlWaitInit \/ DlWaitCond \/ DlWaitTimeout \/ DlWaitStatus \/ DlWaitSleep
    \/ DlInfo \/ DlCond \/ DlStatus \/ DlSleep \/ DlResult
    \/ GiParse \/ GiWaitInit \/ GiWaitCond \/ GiWaitTimeout \/ GiWaitSleep \/ GiInfo \/ GiRemove
    \/ SdPauseTorrents \/ SdPauseSession \/ SdSleep

(* -------------------------------------------- downloader.py: the script *)
\* A method is entered: what is recorded about the running method starts afresh.
Enter(p, r, onP, onM) ==
    /\ Goto(p)
    /\ ret' = r
    /\ onProgress' = onP /\ onMetadata' = onM
    /\ sawMeta' = FALSE /\ metaDelivered' = FALSE
    /\ progressCalls' = 0 /\ snap' = -1
    /\ queried' = FALSE /\ added' = FALSE
    /\ timedOut' = FALSE /\ parseFailed' = FALSE
    /\ cycles' = 0 /\ tfiles' = <<>> /\ result' = NoResult
    /\ late' = NoLate
    /\ cyclePeers' = 0 /\ peerEvent' = FALSE
    /\ UNCHANGED <<last_peer_count, last_progress, pbar>>

\* if len(sys.argv) < 2: the usage is printed; sys.exit(1)
LibMain ==
    /\ prog = "lib" /\ pc = "main"
    /\ IF magnet = "none" THEN Exit(1) ELSE Goto("l_construct")
    /\ UNCHANGED <<prog, magnet, engineVars, elapsed, localVars, intVars, obsVars, clientVars, auxVars>>

\* downloader = TorrentDownloader(download_path): __init__ creates and starts the session.
LibConstruct ==
    /\ prog = "lib" /\ pc = "l_construct"
    /\ sessionUp' = TRUE
    /\ Goto("l_call")
    /\ UNCHANGED <<prog, magnet, sessionPaused, torrents, pausedT, handle, hasMeta, isSeed, elapsed, localVars, intVars, obsVars, clientVars, auxVars>>

\* try: result = downloader.download(magnet_link, on_progress=..., on_metadata=...)
LibCall ==
    /\ prog = "lib" /\ pc = "l_call"
    /\ Enter("d_parse", "l_report", TRUE, TRUE)
    /\ UNCHANGED <<prog, magnet, engineVars, elapsed, intVars, clientVars, intComplete, maxSeen, fmtVars>>

\* "Download complete!" and the save path are printed.
LibReport ==
    /\ prog = "lib" /\ pc = "l_report"
    /\ Say("complete", "l_files")
    /\ UNCHANGED <<prog, magnet, engineVars, elapsed, localVars, intVars, obsVars, clientVars, auxVars>>

\* for file in result['files']: the files are printed; the script ends.
LibFiles ==
    /\ prog = "lib" /\ pc = "l_files"
    /\ Exit(0)
    /\ UNCHANGED <<prog, magnet, engineVars, elapsed, localVars, intVars, obsVars, clientVars, auxVars>>

\* except KeyboardInterrupt: "Download cancelled by user" is printed; downloader.shutdown()
LibKbd ==
    /\ prog = "lib" /\ pc = "l_kbd"
    /\ Say("cancelled", "s_pause_torrents")
    /\ ret' = "exit0"
    /\ UNCHANGED <<prog, magnet, engineVars, elapsed, last_peer_count, last_progress, pbar,
                   onProgress, onMetadata, intVars, obsVars, clientVars, auxVars>>

\* except Exception as e: the error is printed; downloader.shutdown(); sys.exit(1)
LibExc ==
    /\ prog = "lib" /\ pc = "l_exc"
    /\ Say("error", "s_pause_torrents")
    /\ ret' = "exit1"
    /\ UNCHANGED <<prog, magnet, engineVars, elapsed, last_peer_count, last_progress, pbar,
                   onProgress, onMetadata, intVars, obsVars, clientVars, auxVars>>

LibNext == LibMain \/ LibConstruct \/ LibCall \/ LibReport \/ LibFiles \/ LibKbd \/ LibExc

(* ------------------------------------- a client of one TorrentDownloader *)
\* TorrentDownloader(download_path): __init__ creates and starts the session.
ClientConstruct ==
    /\ prog = "client" /\ pc = "main"
    /\ sessionUp' = TRUE
    /\ Goto("k_idle")
    /\ UNCHANGED <<prog, magnet, sessionPaused, torrents, pausedT, handle, hasMeta, isSeed, elapsed, localVars, intVars, obsVars, clientVars, auxVars>>

\* The client calls download(), get_info() or shutdown().
ClientCall ==
    /\ prog = "client" /\ pc = "k_idle"
    /\ calls < MaxCalls
    /\ \E op \in {"download", "get_info", "shutdown"}, m \in {"bad", "ok"},
          onP \in BOOLEAN, onM \in BOOLEAN :
        /\ op # "download" => (~onP /\ ~onM)
        /\ op = "shutdown" => m = "ok"
        /\ magnet' = m
        /\ lastOp' = op
        /\ Enter(CASE op = "download" -> "d_parse"
                   [] op = "get_info" -> "g_parse"
                   [] OTHER -> "s_pause_torrents", "k_back", onP, onM)
        /\ shutdownBegun' = (shutdownBegun \/ op = "shutdown")
    /\ calls' = calls + 1
    /\ prevOp' = lastOp
    /\ UNCHANGED <<prog, engineVars, elapsed, intVars, prevOk, terminal, intComplete, maxSeen, fmtVars>>

\* The call is over: it has returned, or the client has caught what it raised.  The
\* method's locals are gone (its handle, its clock) and the client has taken what it
\* returned; the torrent stays in the session.
ClientBack ==
    /\ prog = "client" /\ pc = "k_back"
    /\ Ctl("k_idle", reported, exitCode, "none")
    /\ prevOk' = (pending = "none")
    /\ terminal' = IF lastOp # "download" THEN terminal
                   ELSE CASE pending = "none" -> "Completed"
                          [] pending = "kbd" -> "Cancelled"
                          [] OTHER -> "Failed"
    /\ handle' = 0
    /\ hasMeta' = FALSE /\ isSeed' = FALSE
    /\ elapsed' = 0
    /\ intAt' = "none" /\ intComplete' = FALSE
    /\ cycles' = 0 /\ tfiles' = <<>> /\ result' = NoResult
    /\ late' = NoLate
    /\ cyclePeers' = 0 /\ peerEvent' = FALSE
    /\ UNCHANGED <<prog, magnet, sessionUp, sessionPaused, torrents, pausedT, localVars,
                   interrupted, obsVars, calls, lastOp, prevOp, shutdownBegun, maxSeen, fmtVars>>

ClientNext == ClientConstruct \/ ClientCall \/ ClientBack

Next == CliNext \/ TdNext \/ LibNext \/ ClientNext \/ EngineStep \/ Interrupt


(* ------------------------------------- cli_downloader.py: format_time *)
\* One piece of the formatted text: f"{n}{unit}".
Piece(n, unit) == [n |-> n, unit |-> unit]

\* format_time with the minutes taken from the whole duration (seconds // 60).
format_time_whole_minutes(seconds) ==
    IF seconds = 0 THEN <<Piece(0, "N/A")>>
    ELSE LET hours == seconds \div 3600
             minutes == seconds \div 60
             secs == seconds % 60
         IN IF hours > 0 THEN <<Piece(hours, "h"), Piece(minutes, "m"), Piece(secs, "s")>>
            ELSE IF minutes > 0 THEN <<Piece(minutes, "m"), Piece(secs, "s")>>
            ELSE <<Piece(secs, "s")>>

\* def format_time(seconds): the pieces of the text it returns, in order ("N/A" is one
\* piece without a number).
format_time(seconds) ==
    IF seconds = 0 THEN <<Piece(0, "N/A")>>
    ELSE LET hours == seconds \div 3600
             minutes == (seconds % 3600) \div 60
             secs == seconds % 60
         IN IF hours > 0 THEN <<Piece(hours, "h"), Piece(minutes, "m"), Piece(secs, "s")>>
            ELSE IF minutes > 0 THEN <<Piece(minutes, "m"), Piece(secs, "s")>>
            ELSE <<Piece(secs, "s")>>

\* format_time is about to be called with a duration of whole seconds.
FmtInit ==
    /\ prog = "format_time" /\ magnet = "none" /\ pc = "main"
    /\ sessionUp = FALSE /\ sessionPaused = FALSE
    /\ torrents = {} /\ pausedT = {} /\ handle = 0
    /\ hasMeta = FALSE /\ isSeed = FALSE
    /\ elapsed = 0
    /\ last_peer_count = 0 /\ last_progress = 0 /\ pbar = -1
    /\ onProgress = FALSE /\ onMetadata = FALSE /\ ret = "none"
    /\ interrupted = FALSE /\ intAt = "none" /\ pending = "none"
    /\ reported = <<>> /\ exitCode = -1
    /\ sawMeta = FALSE /\ metaDelivered = FALSE
    /\ progressCalls = 0 /\ snap = -1
    /\ queried = FALSE /\ added = FALSE
    /\ timedOut = FALSE /\ parseFailed = FALSE
    /\ calls = 0 /\ lastOp = "none" /\ prevOp = "none" /\ prevOk = FALSE
    /\ terminal = "none" /\ shutdownBegun = FALSE
    /\ cycles = 0 /\ tfiles = <<>> /\ result = NoResult
    /\ late = NoLate
    /\ intComplete = FALSE
    /\ cyclePeers = 0 /\ peerEvent = FALSE
    /\ maxSeen = 0
    /\ fmtIn \in 0..MaxSeconds
    /\ fmtOut = <<>>

\* format_time(fmtIn) is called and returns.
FormatTime ==
    /\ prog = "format_time"
    /\ fmtOut = <<>>
    /\ fmtOut' = format_time(fmtIn)
    /\ UNCHANGED <<prog, magnet, engineVars, elapsed, localVars, ctlVars, intVars, obsVars,
                   clientVars, resVars, late, intComplete, peerVars, maxSeen, fmtIn>>

FmtNext == FormatTime

FmtSpec == FmtInit /\ [][FmtNext]_vars

Spec == Init /\ [][Next]_vars

(* ================================================================ claims *)
\* The outcome `what` has been reported.
Said(what) == \E i \in 1..Len(reported) : reported[i] = what

IsOutcome(x) == x \in {"complete", "cancelled", "error"}

\* The outcomes the program has printed, in order.
Outcomes == SelectSeq(reported, IsOutcome)

Script == prog \in {"cli", "lib"}

\* C1: a user interrupt that arrives in the metadata wait loop or in the download loop
\* ends the run as Cancelled, with the torrent and the session paused when it returns.
C1_CancelEndsCancelledAndPaused ==
    (Script /\ pc = "exited" /\ intAt \in {"resolving", "downloading"})
        => (Said("cancelled") /\ handle \in pausedT /\ sessionPaused)

\* C2: a run that fails (malformed magnet, metadata timeout, engine error) has paused
\* the session it started by the time it ends.
C2_FailedRunPausesSession ==
    (Script /\ pc = "exited" /\ sessionUp /\ ~interrupted
            /\ (parseFailed \/ timedOut \/ Said("error") \/ exitCode = 1))
        => sessionPaused

\* C3: once the metadata wait has timed out, the download phase is never entered: no
\* progress is delivered, the download loop is not run, no result is returned and no
\* completion is reported; the wait fails (the script reports the error, download()
\* and get_info() raise).
C3_TimeoutNeverDownloads ==
    timedOut =>
        /\ progressCalls = 0
        /\ pc \notin CliTry \cup DlLoop \cup {"c_info", "d_info", "d_result", "g_info",
                                              "g_remove", "l_report", "l_files"}
        /\ ~Said("complete")
        /\ pc = "k_back" => pending = "exc"
        /\ (prog = "cli" /\ pc = "exited") => reported = <<"error">>

C3_Witness == timedOut /\ elapsed > Timeout /\ prog = "lib" /\ pc = "exited" /\ Said("error")

\* C4: the outcomes complete, cancelled and error exclude each other and are reported
\* once: a run never reports more than one outcome.
C4_OneOutcomeReported == Script => Len(Outcomes) <= 1

\* C5: the exit code reflects the outcome: 1 without a magnet argument, 0 after
\* completion, 1 after a malformed magnet, a metadata timeout or an engine error, 0
\* after an interruption in mid-download.
C5_ExitCodeReflectsOutcome ==
    (Script /\ pc = "exited") =>
        /\ magnet = "none" => exitCode = 1
        /\ reported = <<"complete">> => exitCode = 0
        /\ ((parseFailed \/ timedOut \/ Said("error")) /\ ~interrupted) => exitCode = 1
        /\ (reported = <<"cancelled">> /\ intAt = "downloading") => exitCode = 0

\* C6 as stated: after a malformed magnet no status query has been made, no torrent is
\* added, the polling loop is not entered, and no engine session has been created.
C6_MalformedNoSession ==
    parseFailed =>
        /\ ~queried /\ ~added
        /\ pc \notin Polling
        /\ ~sessionUp

\* C6 as amended: after a malformed magnet no status query has been made, no torrent is
\* added and the polling loop is not entered; the engine session exists: it was created
\* and started before the magnet was parsed.
C6_MalformedNoPolling ==
    parseFailed =>
        /\ ~queried /\ ~added
        /\ pc \notin Polling \cup {"c_wait_init", "d_wait_init", "g_wait_init"}
        /\ handle = 0
        /\ sessionUp

C6_Witness == parseFailed /\ magnet = "bad" /\ prog = "cli" /\ pc = "exited"

\* C7: whenever a progress snapshot has been delivered, the engine had reported
\* has_metadata = true before, and the metadata had been delivered before (printed by
\* the CLI; passed to on_metadata when download() was given one).
C7_NoProgressBeforeMetadata ==
    progressCalls > 0 =>
        /\ sawMeta
        /\ pc \in DlLoop \cup CliTry => hasMeta
        /\ (prog = "cli" \/ onMetadata) => metaDelivered

C7_Witness == progressCalls > 1 /\ onMetadata /\ onProgress /\ prog = "client"

\* C8: once a download() of the client has ended (Completed, Cancelled or Failed), or
\* once shutdown() has been called, a later download() or get_info() adds no torrent
\* and makes no status query.
C8_TerminalAbsorbing ==
    (prog = "client" /\ (terminal # "none" \/ shutdownBegun) /\ pc \in DlBody \cup GiBody)
        => (~added /\ ~queried)

\* C9: shutdown() raises nothing of its own and leaves every torrent of the session and
\* the session paused, whatever was called before; a shutdown() that follows a
\* shutdown() changes nothing in the engine.
C9_ShutdownPausesAll ==
    /\ (pc = "k_back" /\ lastOp = "shutdown" /\ intAt = "none")
          => (pending = "none" /\ torrents \subseteq pausedT /\ sessionPaused)
    /\ (prog = "lib" /\ pc = "exited" /\ (Said("cancelled") \/ Said("error"))
                      /\ ~Said("traceback"))
          => (torrents \subseteq pausedT /\ sessionPaused)
    /\ (prog = "cli" /\ pc = "exited" /\ Said("cancelled"))
          => (torrents \subseteq pausedT /\ sessionPaused)

C9_SecondShutdownChangesNothing ==
    (pc \in SdBody /\ lastOp = "shutdown" /\ prevOp = "shutdown" /\ prevOk)
        => engineVars' = engineVars

C9_ShutdownIdempotent == []C9_ShutdownPausesAll /\ [][C9_SecondShutdownChangesNothing]_vars

C9_Witness ==
    /\ pc = "k_back" /\ pending = "none"
    /\ lastOp = "shutdown" /\ prevOp = "shutdown" /\ prevOk
    /\ torrents # {} /\ terminal = "Cancelled"

\* C10: of two progress values delivered one after the other in one download, the later
\* is at least the earlier.
C10_ProgressMonotone ==
    [][(progressCalls' = progressCalls + 1 /\ progressCalls > 0) => snap' >= snap]_vars


\* The download of the running program has ended Completed: download() has returned its
\* result (to the script or to the client), the CLI has left its download loop and
\* closed the bar.
EndedCompleted ==
    \/ prog = "lib" /\ pc = "l_report"
    \/ prog = "client" /\ pc = "k_back" /\ lastOp = "download" /\ pending = "none"
    \/ prog = "cli" /\ pc = "c_dl_files"

\* The positions of the two download loops (the Downloading state).
Downloading == DlLoop \cup {"c_dl_cond", "c_dl_status", "c_dl_sleep"}

\* C11: the progress delivered to the consumer is 100% when the run ends Completed (for
\* download(): the last value passed to on_progress), and no snapshot of 100% is
\* delivered while the download loop is still running.
C11_FullProgressIffComplete ==
    /\ (EndedCompleted /\ (prog = "cli" \/ onProgress))
          => (IF prog = "cli" THEN pbar = 100 ELSE snap = 100)
    /\ pc \in Downloading => snap # 100


\* The positions of the three metadata wait loops.
Waiting == CliWait \cup DlWait \cup {"g_wait_cond", "g_wait_timeout", "g_wait_sleep"}

\* A metadata wait times out in this step.
TimesOut == timedOut' /\ ~timedOut

\* C12: with every cycle of the wait loop taking one polling interval, a metadata wait
\* times out no earlier than 59 s and no later than 61 s after it began, and no wait
\* loop is still polling after 61 s.
C12_TimeoutWindow ==
    /\ [](pc \in Waiting => elapsed <= Timeout + PollInterval)
    /\ [][TimesOut => (elapsed >= Timeout - PollInterval /\ elapsed <= Timeout + PollInterval)]_vars

C12_Witness ==
    /\ timedOut /\ prog = "cli" /\ pc = "exited"
    /\ elapsed = Timeout + PollInterval
    /\ ~hasMeta /\ ~interrupted


\* download() has returned its result.
Returned ==
    \/ prog = "lib" /\ pc = "l_report"
    \/ prog = "client" /\ pc = "k_back" /\ lastOp = "download" /\ pending = "none"

\* The sizes of the listed files, added up.
RECURSIVE SumSizes(_)
SumSizes(files) ==
    IF files = <<>> THEN 0 ELSE files[1].size + SumSizes(Tail(files))

\* C13: when the engine has the metadata of an n-file torrent and is_seed() turns true
\* after k cycles of the download loop, download() returns after exactly k on_progress
\* invocations (none when it was given no on_progress), and its result lists exactly the
\* n files, in the engine's file order, with sizes that add up to the torrent's total
\* size, together with the absolute save path.
C13_ResultListsAllFiles ==
    Returned =>
        /\ progressCalls = (IF onProgress THEN cycles ELSE 0)
        /\ Len(result.files) = Len(tfiles)
        /\ \A i \in 1..Len(tfiles) :
              result.files[i] = [name |-> tfiles[i].path, size |-> tfiles[i].size]
        /\ SumSizes(result.files) = TotalSize(tfiles)
        /\ result.download_path = <<"/", "cwd">> \o DownloadPath

C13_Witness ==
    /\ Returned /\ prog = "client" /\ onProgress
    /\ cycles = 2 /\ progressCalls = 2
    /\ Len(result.files) = 2
    /\ result.files[1].size # result.files[2].size


\* C14: format_time(s) is 'N/A' for s = 0, 'Ns' alone for 0 < s < 60, 'Mm Ns' for
\* 60 <= s < 3600 and 'Hh Mm Ns' for s >= 3600, with H = s div 3600,
\* M = (s mod 3600) div 60 and N = s mod 60.
C14_FormatTimeForms ==
    fmtOut # <<>> =>
        LET s == fmtIn
            H == Piece(s \div 3600, "h")
            M == Piece((s % 3600) \div 60, "m")
            N == Piece(s % 60, "s")
        IN /\ s = 0 => fmtOut = <<Piece(0, "N/A")>>
           /\ (0 < s /\ s < 60) => fmtOut = <<N>>
           /\ (60 <= s /\ s < 3600) => fmtOut = <<M, N>>
           /\ s >= 3600 => fmtOut = <<H, M, N>>

C14_Witness == fmtIn = 3725 /\ fmtOut = <<Piece(1, "h"), Piece(2, "m"), Piece(5, "s")>>


\* C15 as stated: once the engine has become a seed, the download loop makes no further
\* status query, delivers no further progress and does not sleep again, wherever in the
\* cycle the engine finished.
C15_NoWorkAfterSeed == late = NoLate

\* A check of is_seed() that finds the engine a seed does not begin another cycle.
C15_SeedCheckLeavesLoop ==
    (isSeed /\ pc \in {"d_dl_cond", "c_dl_cond"})
        => pc' \notin {"d_dl_status", "c_dl_status"}

\* C15 as amended: after the engine has become a seed the download loop finishes at most
\* the cycle it is in (at most one status query, one progress delivery and one sleep) and
\* is left at its next is_seed() check, which begins no further cycle.
C15_AtMostOneCycleAfterSeed ==
    /\ [](late.queries <= 1 /\ late.callbacks <= 1 /\ late.sleeps <= 1)
    /\ [][C15_SeedCheckLeavesLoop]_vars

C15_Witness ==
    /\ prog = "lib" /\ pc = "d_result"
    /\ late = [queries |-> 1, callbacks |-> 1, sleeps |-> 1]


\* The interrupt arrived while a download loop was running.
CancelledInLoop ==
    \/ Script /\ pc = "exited" /\ intAt = "downloading"
    \/ prog = "client" /\ pc = "k_back" /\ lastOp = "download" /\ intAt = "downloading"

\* The run has ended Cancelled and not Completed.
EndedCancelled ==
    IF prog = "client" THEN pending = "kbd"
    ELSE Said("cancelled") /\ ~Said("complete")

\* C16 as stated: when the interrupt arrives in a cycle of the download loop whose status
\* query has already shown the transfer complete, the run ends Completed; an interrupt
\* that arrives in any other cycle ends it Cancelled.
C16_CompletionWinsRace ==
    CancelledInLoop =>
        IF intComplete
        THEN (IF prog = "client" THEN pending = "none"
              ELSE Said("complete") /\ ~Said("cancelled"))
        ELSE EndedCancelled

\* C16 as amended: an interrupt that arrives while the download loop is running ends the
\* run Cancelled, also when the status query of that cycle has shown 100%; no completion
\* is reported.
C16_InterruptInLoopCancels == CancelledInLoop => EndedCancelled

C16_Witness ==
    /\ prog = "cli" /\ pc = "exited"
    /\ intAt = "downloading" /\ intComplete /\ isSeed
    /\ Said("cancelled")


\* In handling a cancellation the session is paused only when every torrent is paused.
C17_TorrentsPausedFirst ==
    (Said("cancelled") /\ ~sessionPaused /\ sessionPaused') => torrents \subseteq pausedT

\* Once the interrupt has been raised no progress is delivered and the bar does not move.
C17_NoProgressAfterCancel ==
    (Script /\ interrupted) => UNCHANGED <<progressCalls, snap, pbar, last_progress>>

\* A run that has reported the cancellation ends with the torrents and the session paused.
C17_ReturnsAfterPauses ==
    (Script /\ pc = "exited" /\ Said("cancelled"))
        => (torrents \subseteq pausedT /\ sessionPaused)

\* C17: when the cancellation is detected the shutdown runs in order: the torrent is
\* paused first, then the session, and only then does the run return as Cancelled; no
\* progress is delivered and the progress bar is not updated after the detection.
C17_CancelShutdownOrder ==
    /\ []C17_ReturnsAfterPauses
    /\ [][C17_TorrentsPausedFirst /\ C17_NoProgressAfterCancel]_vars

C17_Witness ==
    /\ prog = "lib" /\ pc = "exited" /\ exitCode = 0
    /\ reported = <<"cancelled">> /\ intAt = "downloading"
    /\ progressCalls > 0
    /\ torrents # {} /\ torrents \subseteq pausedT /\ sessionPaused


\* A cycle of the metadata wait loop of download_torrent or of download() has made its
\* status query in this step.
PeerCycle ==
    /\ pc \in {"c_wait_status", "d_wait_status"}
    /\ pc' \in {"c_wait_sleep", "d_wait_sleep"}

\* C18: during the metadata wait a peer-connection line is printed in exactly the cycles
\* whose peer count differs from the count of the cycle before and is not zero, whatever
\* the sequence of counts (a drop to zero and a return to the earlier count included).
C18_PeerEventOnChange ==
    [][PeerCycle => (peerEvent' = (cyclePeers' # cyclePeers /\ cyclePeers' > 0))]_vars


\* C19: get_info() leaves the session's torrents as they were on every way out, the
\* metadata timeout included: the torrent it added is no longer in the session when the
\* call is over.
C19_GetInfoLeavesNoTorrent ==
    (prog = "client" /\ pc = "k_back" /\ lastOp = "get_info") => handle \notin torrents


\* The positions of the CLI's download loop and the statement that follows it, where the
\* bar is open.
BarOpen == {"c_dl_cond", "c_dl_status", "c_dl_sleep", "c_dl_done"}

\* While the bar is open its position is last_progress, the largest percentage a status
\* query has shown, between 0 and 100; when it has been closed on completion it is at 100.
C20_BarIsMaxSeen ==
    /\ (prog = "cli" /\ pc \in BarOpen)
          => (pbar = last_progress /\ last_progress = maxSeen /\ 0 <= pbar /\ pbar <= 100)
    /\ (prog = "cli" /\ pc = "c_dl_files") => pbar = 100

\* The position of the bar does not decrease.
C20_BarNeverMovesBack == (prog = "cli" /\ pbar >= 0) => pbar' >= pbar

\* C20: in the CLI's download loop the position of the progress bar always equals
\* last_progress, which is the largest progress percentage the engine has reported so
\* far; it never decreases, never exceeds 100, and is exactly 100 when the bar is closed
\* on completion.
C20_BarTracksLargestProgress ==
    /\ []C20_BarIsMaxSeen
    /\ [][C20_BarNeverMovesBack]_vars

C20_Witness ==
    /\ prog = "cli" /\ pc = "c_dl_files"
    /\ pbar = 100 /\ maxSeen = 50 /\ last_progress = 50
    /\ progressCalls = 3 /\ snap = 50

====
